---- MODULE Spec2Model ----
(***************************************************************************)
(* A model of the NYC apartment scraper: the de-duplication store          *)
(* (storage.py), the scrape cycle that drives it (main.py) and the two     *)
(* classification strategies (filter.py, ai_parser.py).                    *)
(*                                                                         *)
(* Three specifications share the variables:                               *)
(*   Spec          the process of main.py: scrape cycles, interrupts and   *)
(*                 restarts;                                               *)
(*   SpecStore     the public operations of SeenPostsStorage called in any *)
(*                 order by a client;                                      *)
(*   SpecClassify  filter_listing and parse_listing applied to listings    *)
(*                 and model responses drawn from bounded sets.            *)
(***************************************************************************)
EXTENDS Integers, Sequences, FiniteSets, TLC

VARIABLES
    seen_posts,     \* SeenPostsStorage.seen_posts: the in-memory set of ids
    file,           \* the storage file on disk
    pc,             \* where the process is: "down", "idle", "classify", "sink",
                    \* "mark", and inside _save "open" and "dump"; under
                    \* SpecClassify "call", "append" and "raised"
    new_posts,      \* run_scrape_cycle: the unseen listings of the cycle (their ids)
    all_results,    \* run_scrape_cycle: the listings classified so far (their ids)
    test_mode,      \* main(): --test
    sheet,          \* the links recorded in the worksheet (by listing id)
    classified,     \* history: the ids handed to the classifier (once), and those
                    \* handed to it more than once (again)
    order,          \* history, kept under SpecStore: the ids in the order they were
                    \* inserted, as of the last operation and before its trim
    hist,           \* history: the last mark_many_seen call, how it ended and whether
                    \* a store was constructed from the file since
    use_ai,         \* main(): the strategy selected at startup (ai.enabled)
    cur_post,       \* filter_listings / parse_listings: the listing of the loop
    response,       \* parse_listing: the outcome of client.messages.create
    cur_result      \* filter_listings / parse_listings: the result of the call

vars == <<seen_posts, file, pc, new_posts, all_results, test_mode, sheet,
          classified, order, hist, use_ai, cur_post, response, cur_result>>

classify_vars == <<use_ai, cur_post, response, cur_result>>

----------------------------------------------------------------------------
(* Bounds of the model. *)

\* The store's bound on the seen set: 10000 in storage.py, scaled down so that
\* exceeding it is within reach of the model.
MaxSeen == 2

\* The number of listing ids the feed can ever show: enough to exceed the bound.
NumIds == MaxSeen + 1

\* The longest list a client passes to mark_many_seen in SpecStore: long enough
\* to exceed the bound in one call.
MaxBatch == MaxSeen + 1

Ids == 1..NumIds

----------------------------------------------------------------------------
(* Sequences and sets. *)

Range(s) == {s[i] : i \in DOMAIN s}

\* Every ordering of the set S: what list(a_set) can return.
RECURSIVE Perms(_)
Perms(S) ==
    IF S = {} THEN {<<>>}
    ELSE UNION {{<<x>> \o p : p \in Perms(S \ {x})} : x \in S}

\* The sequences over S of length at most n.
SeqsUpTo(S, n) == UNION {[1..k -> S] : k \in 0..n}

\* s without the elements that are not in S, order kept.
Restrict(s, S) ==
    LET keep(x) == x \in S IN SelectSeq(s, keep)

\* s followed by the elements of t that are in neither s nor earlier in t.
RECURSIVE AppendNew(_, _)
AppendNew(s, t) ==
    IF t = <<>> THEN s
    ELSE AppendNew(IF Head(t) \in Range(s) THEN s ELSE Append(s, Head(t)), Tail(t))

\* The elements of S in ascending order.
RECURSIVE Ascending(_)
Ascending(S) ==
    IF S = {} THEN <<>>
    ELSE LET m == CHOOSE x \in S : \A y \in S : x <= y
         IN <<m>> \o Ascending(S \ {m})

\* The last n elements of s: s[-n:] for 0 < n <= len(s).
LastN(s, n) == SubSeq(s, Len(s) - n + 1, Len(s))

----------------------------------------------------------------------------
(* storage.py: the file and SeenPostsStorage. *)

\* No file, a file cut short (open(.., 'w') truncated it and the document was
\* not written to its end), or the document json.dump writes:
\* {"seen_ids": [...], "last_updated": ..., "count": n}. seen_ids is kept as
\* the set of the ids listed: _load builds a set from the list and nothing
\* reads the order of the list in the file.
AbsentFile == [kind |-> "absent", seen_ids |-> {}, count |-> 0]
PartialFile == [kind |-> "partial", seen_ids |-> {}, count |-> 0]
Document(seen_list) ==
    [kind |-> "doc", seen_ids |-> Range(seen_list), count |-> Len(seen_list)]

\* Files the store did not write. BytesFile holds bytes that are no text in
\* the encoding open(.., 'r') reads with; ArrayFile holds JSON that is no
\* object ([]); NoListFile holds an object whose "seen_ids" is no list
\* ({"seen_ids": 5}).
BytesFile == [kind |-> "bytes", seen_ids |-> {}, count |-> 0]
ArrayFile == [kind |-> "array", seen_ids |-> {}, count |-> 0]
NoListFile == [kind |-> "no_list", seen_ids |-> {}, count |-> 0]
ForeignFiles == {PartialFile, BytesFile, ArrayFile, NoListFile}

\* What the body of _load's try raises on f: json.load raises JSONDecodeError
\* on text that is no JSON and UnicodeDecodeError on bytes that are no text;
\* data.get raises AttributeError when data is no dict; set(..) raises
\* TypeError when "seen_ids" cannot be iterated.
LoadError(f) ==
    CASE f.kind = "partial" -> "JSONDecodeError"
      [] f.kind = "bytes" -> "UnicodeDecodeError"
      [] f.kind = "array" -> "AttributeError"
      [] f.kind = "no_list" -> "TypeError"
      [] OTHER -> "none"

\* except (json.JSONDecodeError, IOError): the classes _load handles.
LoadHandles(class) == class \in {"JSONDecodeError", "IOError"}

\* The constructor raises when _load's try raises a class it does not handle.
ConstructRaises(f) == LoadError(f) # "none" /\ ~LoadHandles(LoadError(f))

\* _load: the set a new store holds after reading f. A missing file leaves the
\* set empty; text that is no JSON document raises JSONDecodeError, which is
\* caught and leaves the set empty too. When the try raises anything else the
\* set is still the empty one __init__ made, and the exception goes on.
_load(f) ==
    IF f.kind = "doc" THEN f.seen_ids ELSE {}

\* A trim that starts one element early: >= for >.
TrimAtBound(seen_list) ==
    IF Len(seen_list) >= MaxSeen THEN LastN(seen_list, MaxSeen - 1) ELSE seen_list

\* _save, the trim: seen_list[-10000:] when the list is longer than the bound.
Trim(seen_list) ==
    IF Len(seen_list) > MaxSeen THEN LastN(seen_list, MaxSeen) ELSE seen_list

\* _save up to the write: list(self.seen_posts) lists a set, whose order is
\* that of the hash table and not the order of insertion, so any ordering may
\* come out; the result is every list seen_list can be after the trim.
SeenLists(seen) == {Trim(listed) : listed \in Perms(seen)}

is_seen(post_id) == post_id \in seen_posts

get_count == Cardinality(seen_posts)

\* filter_unseen: the posts whose id is not in the set, order kept.
filter_unseen(posts) ==
    LET unseen(p) == ~is_seen(p) IN SelectSeq(posts, unseen)

NoHist == [op |-> "none"]

\* mark_many_seen(post_ids) up to the write of _save: add every id, list the
\* set, trim the list and, when it was trimmed, make the set that of the list.
\* Either way seen_posts then holds exactly the ids of seen_list, which is what
\* _save goes on to write.
mark_many_seen(post_ids) ==
    LET added == seen_posts \cup Range(post_ids)
    IN /\ \E kept \in {Range(seen_list) : seen_list \in SeenLists(added)} :
            /\ seen_posts' = kept
            /\ hist' = [op |-> "mark_many_seen", on_empty |-> seen_posts = {},
                        batch |-> IF seen_posts = {} THEN Range(post_ids) ELSE {},
                        prefile |-> _load(file), post |-> kept,
                        stage |-> "saving", reloaded |-> FALSE]
       /\ UNCHANGED file

\* _save, open(self.storage_file, 'w'): the file is truncated, or open raises
\* IOError, which _save catches: the file is as before and the call returns.
SaveOpen(fails) ==
    /\ file' = IF fails THEN file ELSE PartialFile
    /\ hist' = IF fails THEN [hist EXCEPT !.stage = "failed"] ELSE hist
    /\ UNCHANGED seen_posts

\* _save, json.dump and the close: the document is written, or a write raises
\* IOError, which _save catches: the file stays cut short and the call returns.
SaveDump(fails) ==
    /\ file' = IF fails THEN file ELSE Document(Ascending(seen_posts))
    /\ hist' = [hist EXCEPT !.stage = IF fails THEN "failed" ELSE "saved"]
    /\ UNCHANGED seen_posts

\* The process dies: its memory is gone, the file is what it is.
Die ==
    /\ pc' = "down"
    /\ seen_posts' = {}
    /\ hist' = IF hist.op = "mark_many_seen" /\ hist.stage = "saving"
               THEN [hist EXCEPT !.stage = "crashed"]
               ELSE NoHist
    /\ UNCHANGED file

\* mark_seen(post_id): add the id; nothing is trimmed or saved.
mark_seen(post_id) ==
    /\ seen_posts' = seen_posts \cup {post_id}
    /\ hist' = NoHist
    /\ UNCHANGED file

\* SeenPostsStorage(storage_file): an empty set, then _load.
Construct ==
    /\ seen_posts' = _load(file)
    /\ hist' = IF hist.op = "mark_many_seen" /\ ~hist.reloaded
               THEN [hist EXCEPT !.reloaded = TRUE]
               ELSE NoHist
    /\ UNCHANGED file

----------------------------------------------------------------------------
(* Python values. None, a bool, an int, NaN, a str, a list or a dict, each   *)
(* as a record of the same shape: t is the type, n the number (1 and 0 for   *)
(* True and False, the length for a list or dict), s the characters of a     *)
(* str. A str is the sequence of its characters.                             *)

None == [t |-> "none", n |-> 0, s |-> <<>>]
Bool(b) == [t |-> "bool", n |-> IF b THEN 1 ELSE 0, s |-> <<>>]
Num(n) == [t |-> "num", n |-> n, s |-> <<>>]
NaN == [t |-> "nan", n |-> 0, s |-> <<>>]
Str(s) == [t |-> "str", n |-> 0, s |-> s]
List(n) == [t |-> "list", n |-> n, s |-> <<>>]
Dict(n) == [t |-> "dict", n |-> n, s |-> <<>>]

\* bool(v): what `if v` and `not v` see.
Truthy(v) ==
    CASE v.t = "none" -> FALSE
      [] v.t \in {"bool", "num", "list", "dict"} -> v.n # 0
      [] v.t = "nan" -> TRUE
      [] v.t = "str" -> v.s # <<>>

----------------------------------------------------------------------------
(* str: character classes and the methods the classifiers call. *)

Digits == <<"0", "1", "2", "3", "4", "5", "6", "7", "8", "9">>
Lowercase ==
    <<"a", "b", "c", "d", "e", "f", "g", "h", "i", "j", "k", "l", "m",
      "n", "o", "p", "q", "r", "s", "t", "u", "v", "w", "x", "y", "z">>
Uppercase ==
    <<"A", "B", "C", "D", "E", "F", "G", "H", "I", "J", "K", "L", "M",
      "N", "O", "P", "Q", "R", "S", "T", "U", "V", "W", "X", "Y", "Z">>
DigitChars == Range(Digits)
LowerChars == Range(Lowercase)
UpperChars == Range(Uppercase)

\* \d, \w and \s of the re module, on the characters of the model.
IsDigit(c) == c \in DigitChars
WordChars == DigitChars \cup LowerChars \cup UpperChars \cup {"_"}
SpaceChars == {" ", "\n", "\t"}
IsWord(c) == c \in WordChars
IsSpace(c) == c \in SpaceChars

\* text[i], and a character of no class outside the text.
At(text, i) == IF i \in 1..Len(text) THEN text[i] ELSE ""

LowerChar(c) ==
    IF c \in UpperChars
    THEN Lowercase[CHOOSE k \in 1..Len(Uppercase) : Uppercase[k] = c]
    ELSE c

\* str.lower()
lower(text) == [i \in 1..Len(text) |-> LowerChar(text[i])]

\* text[i:].startswith(sub), i counted from 1.
StartsAt(text, i, sub) ==
    /\ i + Len(sub) - 1 <= Len(text)
    /\ \A j \in 1..Len(sub) : text[i + j - 1] = sub[j]

\* sub in text
Contains(text, sub) ==
    \E i \in 1..(Len(text) - Len(sub) + 1) : StartsAt(text, i, sub)

\* The first index from i on whose character is not white space: \s*.
RECURSIVE SkipSpace(_, _)
SkipSpace(text, i) ==
    IF IsSpace(At(text, i)) THEN SkipSpace(text, i + 1) ELSE i

\* The first index from i on whose character is white space or past the end.
RECURSIVE WordEnd(_, _)
WordEnd(text, i) ==
    IF i > Len(text) \/ IsSpace(text[i]) THEN i ELSE WordEnd(text, i + 1)

\* text[i:].split(): the runs of characters between white space.
RECURSIVE SplitFrom(_, _)
SplitFrom(text, i) ==
    LET s == SkipSpace(text, i)
    IN IF s > Len(text) THEN <<>>
       ELSE <<SubSeq(text, s, WordEnd(text, s) - 1)>> \o SplitFrom(text, WordEnd(text, s))

\* str.split()
split(text) == SplitFrom(text, 1)

----------------------------------------------------------------------------
(* filter.py: extract_price. *)

\* The band of line 60: 500 <= price <= 15000.
MinRent == 500
MaxRent == 15000

\* [\d,]
IsPriceChar(c) == IsDigit(c) \/ c = ","

\* The end of [\d,]+ matched greedily from i: the first index past the run.
RECURSIVE RunEnd(_, _)
RunEnd(text, i) ==
    IF IsPriceChar(At(text, i)) THEN RunEnd(text, i + 1) ELSE i

\* The end of [:\s]* matched greedily from i.
RECURSIVE SkipColonSpace(_, _)
SkipColonSpace(text, i) ==
    IF IsSpace(At(text, i)) \/ At(text, i) = ":" THEN SkipColonSpace(text, i + 1) ELSE i

\* \$?\s* matched from j, when ([\d,]+) follows: the index of the group, else 0.
AfterDollar(text, j) ==
    LET k == IF At(text, j) = "$" THEN SkipSpace(text, j + 1) ELSE j
    IN IF IsPriceChar(At(text, k)) THEN k ELSE 0

W_rent == <<"r", "e", "n", "t">>
W_asking == <<"a", "s", "k", "i", "n", "g">>

\* PRICE_PATTERNS[p - 1] matched at index i of text (low is text lower-cased,
\* for re.IGNORECASE): the index where its group starts, 0 when it does not
\* match there. The optional suffix of pattern 1 takes no part in its group, so
\* patterns 1 and 3 match at the same places with the same groups. Pattern 2
\* matches at the start of a run of [\d,] that "/" and an m follow (a later
\* start inside the run lies within that match, and findall does not overlap).
GroupStart(p, text, low, i) ==
    CASE p \in {1, 3} ->
           IF text[i] = "$" /\ IsPriceChar(At(text, SkipSpace(text, i + 1)))
           THEN SkipSpace(text, i + 1) ELSE 0
      [] p = 2 ->
           IF /\ IsPriceChar(text[i])
              /\ ~IsPriceChar(At(text, i - 1))
              /\ LET slash == SkipSpace(text, RunEnd(text, i))
                 IN /\ At(text, slash) = "/"
                    /\ At(low, SkipSpace(text, slash + 1)) = "m"
           THEN i ELSE 0
      [] p = 4 ->
           IF StartsAt(low, i, W_rent) /\ SkipColonSpace(text, i + 4) > i + 4
           THEN AfterDollar(text, SkipColonSpace(text, i + 4)) ELSE 0
      [] p = 5 ->
           IF StartsAt(low, i, W_asking) /\ SkipSpace(text, i + 6) > i + 6
           THEN AfterDollar(text, SkipSpace(text, i + 6)) ELSE 0

\* regex.findall(text) for pattern p: the groups of its matches, left to right.
findall(p, text) ==
    LET low == lower(text)
        matches(i) == GroupStart(p, text, low, i) # 0
        at == SelectSeq([i \in 1..Len(text) |-> i], matches)
    IN [k \in 1..Len(at) |->
          LET g == GroupStart(p, text, low, at[k])
          IN SubSeq(text, g, RunEnd(text, g) - 1)]

\* The candidates in the order extract_price visits them: pattern by pattern,
\* left to right within a pattern.
Candidates(text) ==
    findall(1, text) \o findall(2, text) \o findall(3, text)
        \o findall(4, text) \o findall(5, text)

RECURSIVE IntOfDigits(_, _)
IntOfDigits(digits, acc) ==
    IF digits = <<>> THEN acc
    ELSE IntOfDigits(Tail(digits),
                     10 * acc + (CHOOSE d \in 0..9 : Digits[d + 1] = Head(digits)))

\* int(match.replace(",", "")): the number, or None where int raises ValueError
\* (nothing but commas).
ParseInt(match) ==
    LET digit(c) == c # ","
        digits == SelectSeq(match, digit)
    IN IF digits = <<>> THEN None ELSE Num(IntOfDigits(digits, 0))

\* A sanity check that lets every number through.
AnyRent(price) == TRUE

\* 500 <= price <= 15000
InBand(price) == MinRent <= price /\ price <= MaxRent

\* extract_price(text): the first candidate that is a number of the band.
extract_price(text) ==
    LET valid(match) == ParseInt(match) # None /\ InBand(ParseInt(match).n)
        hits == SelectSeq(Candidates(text), valid)
    IN IF hits = <<>> THEN None ELSE ParseInt(Head(hits))

----------------------------------------------------------------------------
(* filter.py: _fuzzy_match_any. *)

fuzzy_threshold == 80

Max(a, b) == IF a >= b THEN a ELSE b

\* One row of the longest-common-subsequence table: cur[i + 1] is the length
\* for the first i characters of a and the characters of b up to c.
RECURSIVE LcsRow(_, _, _, _)
LcsRow(prev, a, c, cur) ==
    IF Len(cur) = Len(a) + 1 THEN cur
    ELSE LET i == Len(cur)
         IN LcsRow(prev, a, c,
                   Append(cur, IF a[i] = c THEN prev[i] + 1
                               ELSE Max(prev[i + 1], cur[i])))

RECURSIVE LcsFrom(_, _, _, _)
LcsFrom(a, b, j, prev) ==
    IF j > Len(b) THEN prev[Len(a) + 1]
    ELSE LcsFrom(a, b, j + 1, LcsRow(prev, a, b[j], <<0>>))

\* The length of the longest common subsequence of a and b.
Lcs(a, b) == LcsFrom(a, b, 1, [i \in 1..(Len(a) + 1) |-> 0])

\* rapidfuzz.fuzz.ratio(a, b): the normalised indel similarity,
\* 100 * 2 * lcs / (len(a) + len(b)), rounded down (it is compared with an
\* integer threshold only); 100 for two empty strings.
fuzz_ratio(a, b) ==
    IF Len(a) + Len(b) = 0 THEN 100
    ELSE (200 * Lcs(a, b)) \div (Len(a) + Len(b))

\* sorted(terms, key=len, reverse=True): longest first; the sort is stable, so
\* terms of one length keep their order.
\* The terms in the order they were configured.
Unsorted(terms) == terms

RECURSIVE sorted_by_len(_)
sorted_by_len(terms) ==
    IF terms = <<>> THEN <<>>
    ELSE LET last == terms[Len(terms)]
             rest == sorted_by_len(SubSeq(terms, 1, Len(terms) - 1))
             before(x) == Len(x) >= Len(last)
             after(x) == Len(x) < Len(last)
         IN SelectSeq(rest, before) \o <<last>> \o SelectSeq(rest, after)

\* \b at index i of text: a word character on exactly one side.
Boundary(text, i) == IsWord(At(text, i - 1)) # IsWord(At(text, i))

\* re.search(r'\b' + re.escape(term) + r'\b', text)
SearchWord(text, term) ==
    \E i \in 1..(Len(text) + 1) :
        /\ StartsAt(text, i, term)
        /\ Boundary(text, i)
        /\ Boundary(text, i + Len(term))

\* re.sub(r'[^\w\s]', '', word)
clean(word) ==
    LET kept(c) == IsWord(c) \/ IsSpace(c) IN SelectSeq(word, kept)

Abs(n) == IF n < 0 THEN 0 - n ELSE n

\* The fuzzy tier for one term: some word of the text, cleaned, is at least 3
\* long, within 2 of the term's length, and similar enough.
FuzzyWord(words, term) ==
    \E k \in 1..Len(words) :
        LET clean_word == clean(words[k])
        IN /\ Len(clean_word) >= 3
           /\ Abs(Len(clean_word) - Len(term)) <= 2
           /\ fuzz_ratio(clean_word, term) >= fuzzy_threshold

\* _fuzzy_match_any(text, terms): the matched term, or None. (The bool of the
\* returned pair is whether the term is not None.)
_fuzzy_match_any(text, terms) ==
    LET text_lower == lower(text)
        sorted_terms == sorted_by_len(terms)
        exact(term) == SearchWord(text_lower, term)
        exact_hits == SelectSeq(sorted_terms, exact)
        words == split(text_lower)
        fuzzy(term) == Len(split(term)) <= 1 /\ FuzzyWord(words, term)
        fuzzy_hits == SelectSeq(sorted_terms, fuzzy)
    IN IF exact_hits # <<>> THEN Str(Head(exact_hits))
       ELSE IF fuzzy_hits # <<>> THEN Str(Head(fuzzy_hits))
       ELSE None

----------------------------------------------------------------------------
(* filter.py: the criteria and filter_listing. *)

\* The criteria the filter is constructed with: the price range of
\* test_filter.py, and lists written with capitals as a configuration file may.
price_min == 1500
price_max == 2800
T_Studio == <<"S", "t", "u", "d", "i", "o">>
T_1BR == <<"1", "B", "R">>
T_Village == <<"V", "i", "l", "l", "a", "g", "e">>
T_East_Village ==
    <<"E", "a", "s", "t", " ", "V", "i", "l", "l", "a", "g", "e">>
T_Williamsburg ==
    <<"W", "i", "l", "l", "i", "a", "m", "s", "b", "u", "r", "g">>
T_LES == <<"L", "E", "S">>
T_sublet == <<"s", "u", "b", "l", "e", "t">>
T_roommate == <<"r", "o", "o", "m", "m", "a", "t", "e">>
T_room_for_rent ==
    <<"r", "o", "o", "m", " ", "f", "o", "r", " ", "r", "e", "n", "t">>
ConfiguredTypes == <<T_Studio, T_1BR>>
ConfiguredNeighborhoods == <<T_Village, T_East_Village, T_Williamsburg, T_LES>>
T_room == <<"r", "o", "o", "m">>
ConfiguredExcludeTerms == <<T_sublet, T_room, T_roommate, T_room_for_rent>>

\* __init__: [t.lower() for t in ...]
LowerAll(terms) == [k \in 1..Len(terms) |-> lower(terms[k])]
apartment_types == LowerAll(ConfiguredTypes)
neighborhoods == LowerAll(ConfiguredNeighborhoods)
exclude_terms == LowerAll(ConfiguredExcludeTerms)

_check_apartment_type(text) == _fuzzy_match_any(text, apartment_types)

\* A location check that finds a location only where a type was found too.
NeighborhoodOfTyped(text) ==
    IF _fuzzy_match_any(text, apartment_types) = None THEN None
    ELSE _fuzzy_match_any(text, neighborhoods)

_check_neighborhood(text) == _fuzzy_match_any(text, neighborhoods)

\* An exclusion check that finds nothing.
NoExclusions(text) == None

_check_exclusions(text) == _fuzzy_match_any(text, exclude_terms)

W_offering == <<"o", "f", "f", "e", "r", "i", "n", "g">>
W_listing == <<"l", "i", "s", "t", "i", "n", "g">>

\* An offering check that reads the flair as it is written.
CaseSensitiveOfferingTag(flair) ==
    LET flair_text == IF Truthy(flair) THEN flair.s ELSE <<>>
    IN Contains(flair_text, W_offering) \/ Contains(flair_text, W_listing)

\* _check_offering_tag(flair); the flair is a str or None.
_check_offering_tag(flair) ==
    LET flair_lower == IF Truthy(flair) THEN lower(flair.s) ELSE <<>>
    IN Contains(flair_lower, W_offering) \/ Contains(flair_lower, W_listing)

W_looking_for == <<"l", "o", "o", "k", "i", "n", "g", " ", "f", "o", "r">>
W_searching_for ==
    <<"s", "e", "a", "r", "c", "h", "i", "n", "g", " ", "f", "o", "r">>
W_need == <<"n", "e", "e", "d">>
W_seeking == <<"s", "e", "e", "k", "i", "n", "g">>
W_wanted == <<"w", "a", "n", "t", "e", "d">>
SeekingPhrases == {W_looking_for, W_searching_for, W_need, W_seeking, W_wanted}

\* A reason: the words of the message and the value put into it, if any.
Reason(text, detail) == [text |-> text, detail |-> detail, bound |-> None]

\* f"Price ${price} below minimum ${self.price_min}" and its like for the
\* maximum: the message carries the price and the bound it broke.
PriceReason(text, price, bound) ==
    [text |-> text, detail |-> price, bound |-> Num(bound)]

\* A comparison that also turns away a price equal to the maximum.
AtOrAboveMax(price) == price.n >= price_max

\* price < self.price_min
BelowMin(price) == price.n < price_min

\* price > self.price_max
AboveMax(price) == price.n > price_max

\* The result dict filter_listing starts from.
NewResult ==
    [passed |-> FALSE, reasons |-> <<>>, extracted_price |-> None,
     matched_type |-> None, matched_neighborhood |-> None]

\* result["reasons"].append(reason)
Note(result, reason) == [result EXCEPT !.reasons = Append(@, reason)]

\* A failing return that appends nothing.
FailSilently(result, reason) == result

\* result["reasons"].append(reason); return result
Fail(result, reason) == Note(result, reason)

\* filter_listing(post)
filter_listing(post) ==
    LET title == post.title
        body == post.selftext
        flair == post.flair
        full_text == title \o <<" ">> \o body
        result == NewResult
        seeking == \E x \in SeekingPhrases : Contains(lower(title), x)
        exclude_term == _check_exclusions(full_text)
        price == extract_price(full_text)
        priced == [result EXCEPT !.extracted_price = price]
        matched_type == _check_apartment_type(full_text)
        matched_hood == _check_neighborhood(full_text)
        price_noted ==
            Note(priced, IF price = None THEN Reason("No price detected", None)
                         ELSE Reason("Price within range", price))
        typed ==
            IF matched_type # None
            THEN Note([price_noted EXCEPT !.matched_type = matched_type],
                      Reason("Matched apartment type", matched_type))
            ELSE Note(price_noted, Reason("No matching apartment type found", None))
    IN IF ~_check_offering_tag(flair) /\ seeking
       THEN Fail(result, Reason("Not an offering (appears to be a request)", None))
       ELSE IF exclude_term # None
       THEN Fail(result, Reason("Excluded term found", exclude_term))
       ELSE IF price # None /\ BelowMin(price)
       THEN Fail(priced, PriceReason("Price below minimum", price, price_min))
       ELSE IF price # None /\ AboveMax(price)
       THEN Fail(priced, PriceReason("Price above maximum", price, price_max))
       ELSE IF matched_hood # None
       THEN [Note([typed EXCEPT !.matched_neighborhood = matched_hood],
                  Reason("Matched neighborhood", matched_hood))
               EXCEPT !.passed = TRUE]
       ELSE Fail(typed, Reason("No matching neighborhood found", None))

----------------------------------------------------------------------------
(* The listings the deterministic strategy is applied to: a title put         *)
(* together from a seeking phrase, a type, a neighbourhood, a price and an    *)
(* exclusion term, each of which may be missing; a body; a flair.             *)

P_Looking_for == <<"L", "o", "o", "k", "i", "n", "g", " ", "f", "o", "r">>
P_hood_exact ==
    <<"i", "n", " ", "E", "a", "s", "t", " ", "V", "i", "l", "l", "a", "g",
      "e">>
P_hood_abbrev == <<"i", "n", " ", "W", "b", "u", "r", "g">>
P_hood_typo ==
    <<"i", "n", " ", "W", "i", "l", "l", "i", "a", "m", "s", "b", "u", "r",
      "g", "h">>
P_hood_caps == <<"o", "n", " ", "t", "h", "e", " ", "L", "E", "S">>
P_price_mo == <<"$", "2", "8", "0", "0", "/", "m", "o">>
P_price_high == <<"$", "4", "5", "0", "0">>
P_price_low == <<"$", "1", ",", "2", "0", "0">>
P_price_rent == <<"r", "e", "n", "t", ":", " ", "1", "5", "0", "0">>
P_price_two ==
    <<"$", "3", "0", "0", " ", "o", "f", "f", ",", " ", "n", "o", "w", " ",
      "2", "7", "0", "0", "/", "m", "o", "n", "t", "h">>
P_excl_exact == <<"S", "u", "b", "l", "e", "t">>
P_excl_plural ==
    <<"n", "o", " ", "r", "o", "o", "m", "m", "a", "t", "e", "s">>
P_excl_room ==
    <<"R", "o", "o", "m", ",", " ", "n", "o", " ", "r", "o", "o", "m", "a", "t",
      "e", "s">>
B_roommate ==
    <<"T", "e", "x", "t", " ", "m", "e", ".", " ", "R", "o", "o", "m", "m",
      "a", "t", "e", " ", "w", "a", "n", "t", "e", "d">>
B_asking ==
    <<"A", "s", "k", "i", "n", "g", " ", "2", "0", "0", "0", " ", "n", "e",
      "a", "r", " ", "B", "u", "s", "h", "w", "i", "c", "k">>
F_Offering == <<"O", "f", "f", "e", "r", "i", "n", "g">>
F_Looking == <<"L", "o", "o", "k", "i", "n", "g">>

SeekingParts == {<<>>, P_Looking_for}
TypeParts == {<<>>, T_1BR}
HoodParts == {<<>>, P_hood_exact, P_hood_abbrev, P_hood_typo, P_hood_caps}
PriceParts ==
    {<<>>, P_price_mo, P_price_high, P_price_low, P_price_rent, P_price_two}
ExclusionParts == {<<>>, P_excl_exact, P_excl_plural, P_excl_room}
Bodies == {<<>>, B_roommate, B_asking}
Flairs == {None, Str(F_Offering), Str(F_Looking)}

\* The parts that are not empty, with a space between them.
RECURSIVE Join(_)
Join(parts) ==
    IF parts = <<>> THEN <<>>
    ELSE LET rest == Join(Tail(parts))
         IN IF Head(parts) = <<>> THEN rest
            ELSE IF rest = <<>> THEN Head(parts)
            ELSE Head(parts) \o <<" ">> \o rest

Titles ==
    {Join(<<a, b, c, d, e>>) :
        a \in SeekingParts, b \in TypeParts, c \in HoodParts, d \in PriceParts,
        e \in ExclusionParts}

\* test_filter.py, the second of passing_tests.
P_test_title ==
    <<"[", "O", "f", "f", "e", "r", "i", "n", "g", "]", " ", "S", "t", "u",
      "d", "i", "o", " ", "i", "n", " ", "W", "b", "u", "r", "g", " ", "f",
      "o", "r", " ", "$", "2", "1", "0", "0">>
B_test_body ==
    <<"C", "o", "z", "y", " ", "s", "t", "u", "d", "i", "o", " ", "n", "e",
      "a", "r", " ", "B", "e", "d", "f", "o", "r", "d", " ", "A", "v", "e",
      " ", "L", " ", "t", "r", "a", "i", "n", ".", " ", "A", "v", "a", "i",
      "l", "a", "b", "l", "e", " ", "F", "e", "b", " ", "1", ".">>
TestListing ==
    [title |-> P_test_title, selftext |-> B_test_body, flair |-> Str(F_Offering)]

Posts ==
    {[title |-> t, selftext |-> b, flair |-> f] :
        t \in Titles, b \in Bodies, f \in Flairs} \cup {TestListing}

----------------------------------------------------------------------------
(* ai_parser.py: the outcome of the model call and parse_listing.             *)

\* The text of a content block, as the pieces parse_listing tells apart: a
\* code fence (```), the word json, white space, prose, and a JSON document.
\* A document is the value json.loads returns for it, with the fields
\* parse_listing reads when the value is a dict; Absent marks a key the dict
\* does not have. A document nested deeper than the decoder recurses is the
\* piece "deep".
Absent == [t |-> "absent", n |-> 0, s |-> <<>>]

Doc(value, is_offering, has_exclusion, exclusion_reason, price, apartment_type, neighborhood, matches_criteria) ==
    [value |-> value, is_offering |-> is_offering, has_exclusion |-> has_exclusion,
     exclusion_reason |-> exclusion_reason, price |-> price,
     apartment_type |-> apartment_type, neighborhood |-> neighborhood,
     matches_criteria |-> matches_criteria, summary |-> Absent]

\* A JSON value that is not an object: it has no keys.
Scalar(value) == Doc(value, Absent, Absent, Absent, Absent, Absent, Absent, Absent)

Piece(tok, doc) == [tok |-> tok, doc |-> doc]
Fence == Piece("fence", Scalar(None))
JsonWord == Piece("json", Scalar(None))
Space == Piece("space", Scalar(None))
Prose == Piece("prose", Scalar(None))
Deep == Piece("deep", Scalar(None))
Value(doc) == Piece("value", doc)

\* str.strip()
RECURSIVE lstrip(_)
lstrip(text) ==
    IF text # <<>> /\ Head(text).tok = "space" THEN lstrip(Tail(text)) ELSE text

RECURSIVE rstrip(_)
rstrip(text) ==
    IF text # <<>> /\ text[Len(text)].tok = "space"
    THEN rstrip(SubSeq(text, 1, Len(text) - 1)) ELSE text

strip(text) == rstrip(lstrip(text))

\* text.split("```")[1] for a text that starts with the fence: what lies
\* between the first fence and the next one, or the end.
RECURSIVE UpToFence(_)
UpToFence(text) ==
    IF text = <<>> \/ Head(text).tok = "fence" THEN <<>>
    ELSE <<Head(text)>> \o UpToFence(Tail(text))

\* Lines 125-129: the handling of a Markdown code block.
Unfence(response_text) ==
    IF response_text # <<>> /\ Head(response_text).tok = "fence"
    THEN LET inner == UpToFence(Tail(response_text))
         IN strip(IF inner # <<>> /\ Head(inner).tok = "json" THEN Tail(inner) ELSE inner)
    ELSE response_text

\* What a statement of the try block does: go on with a value, or raise.
Raise(class, result) == [raised |-> class, result |-> result, doc |-> Scalar(None)]
Return(result) == [raised |-> "none", result |-> result, doc |-> Scalar(None)]

\* json.loads(text): the document when the text, white space aside, is one
\* JSON document; RecursionError when it is nested too deep; JSONDecodeError
\* for anything else (prose, a fence, nothing, extra data).
json_loads(text) ==
    LET t == strip(text)
    IN IF Len(t) = 1 /\ t[1].tok = "value"
       THEN [raised |-> "none", doc |-> t[1].doc]
       ELSE IF Len(t) = 1 /\ t[1].tok = "deep"
       THEN [raised |-> "RecursionError", doc |-> Scalar(None)]
       ELSE [raised |-> "JSONDecodeError", doc |-> Scalar(None)]

\* dict.get(key): the value, None for a key the dict does not have.
get(field) == IF field = Absent THEN None ELSE field

\* dict.get(key, default)
get_or(field, default) == IF field = Absent THEN default ELSE field

\* price < bound and price > bound are defined for numbers (bool included); any
\* comparison with NaN is False; a str, list or dict raises TypeError.
Comparable(v) == v.t \in {"bool", "num", "nan"}

\* A comparison that also holds for a price equal to the bound.
GreaterOrEqual(v, bound) == v.t # "nan" /\ v.n >= bound
Less(v, bound) == v.t # "nan" /\ v.n < bound
Greater(v, bound) == v.t # "nan" /\ v.n > bound

\* The result dict parse_listing starts from.
NewAIResult ==
    [passed |-> FALSE, reasons |-> <<>>, extracted_price |-> None,
     matched_type |-> None, matched_neighborhood |-> None,
     ai_response |-> Scalar(None)]

W_NA == <<"N", "/", "A">>
W_exclusion_term_found ==
    <<"e", "x", "c", "l", "u", "s", "i", "o", "n", " ", "t", "e", "r", "m",
      " ", "f", "o", "u", "n", "d">>

\* Lines 134-178, for the document ai_data that json.loads returned: the
\* result, or the exception a statement raised and the result as it was then.
Decide(ai_data, result) ==
    LET loaded == [result EXCEPT !.ai_response = ai_data]
        read == [loaded EXCEPT !.extracted_price = get(ai_data.price),
                               !.matched_type = get(ai_data.apartment_type),
                               !.matched_neighborhood = get(ai_data.neighborhood)]
        price == get(ai_data.price)
        price_noted ==
            Note(read, IF price = None THEN Reason("No price detected", None)
                       ELSE Reason("Price within range", price))
        typed ==
            IF Truthy(get(ai_data.apartment_type))
            THEN Note(price_noted, Reason("Apartment type", ai_data.apartment_type))
            ELSE Note(price_noted, Reason("No apartment type detected", None))
        placed == Note(typed, Reason("Neighborhood", ai_data.neighborhood))
    IN IF ai_data.value.t # "dict"
       THEN Raise("AttributeError", loaded)
       ELSE IF ~Truthy(get(ai_data.is_offering))
       THEN Return(Fail(read, Reason("Not an offering (appears to be a request)", None)))
       ELSE IF Truthy(get(ai_data.has_exclusion))
       THEN Return(Fail(read, Reason("Excluded",
                                       get_or(ai_data.exclusion_reason,
                                              Str(W_exclusion_term_found)))))
       ELSE IF price # None /\ ~Comparable(price)
       THEN Raise("TypeError", read)
       ELSE IF price # None /\ Less(price, price_min)
       THEN Return(Fail(read, Reason("Price below minimum", price)))
       ELSE IF price # None /\ Greater(price, price_max)
       THEN Return(Fail(read, Reason("Price above maximum", price)))
       ELSE IF ~Truthy(get(ai_data.neighborhood))
       THEN Return(Fail(typed, Reason("No matching neighborhood found", None)))
       ELSE IF Truthy(get(ai_data.matches_criteria))
       THEN Return([Note(placed, Reason("AI summary", get_or(ai_data.summary, Str(W_NA))))
                        EXCEPT !.passed = TRUE])
       ELSE Return(Note(placed, Reason("AI determined listing does not match criteria", None)))

\* The try block of parse_listing (lines 110-178) for one outcome of
\* client.messages.create: the call raises, or returns a response whose
\* content is a list of blocks.
Attempt(outcome) ==
    LET result == NewAIResult
        block == outcome.content[1]
        loaded == json_loads(Unfence(strip(block.text)))
    IN IF outcome.raises # "none" THEN Raise(outcome.raises, result)
       ELSE IF outcome.content = <<>> THEN Raise("IndexError", result)
       ELSE IF block.type # "text" THEN Raise("AttributeError", result)
       ELSE IF loaded.raised # "none" THEN Raise(loaded.raised, result)
       ELSE Decide(loaded.doc, result)

\* The exceptions of the model that derive from Exception: those of the SDK
\* (a timeout among them) and those the statements of the try block raise.
ExceptionClasses ==
    {"APITimeoutError", "APIStatusError", "IndexError", "AttributeError",
     "TypeError", "RecursionError", "JSONDecodeError"}

\* A handler that catches decode errors only.
IsDecodeError(class) == class = "JSONDecodeError"

\* except Exception: does the clause catch an exception of this class?
IsException(class) == class \in ExceptionClasses

\* parse_listing: the try block and its two except clauses. What it returns
\* has raised = "none"; an exception no clause catches leaves it.
parse_listing(outcome) ==
    LET tried == Attempt(outcome)
    IN IF tried.raised = "none" THEN tried
       ELSE IF tried.raised = "JSONDecodeError"
       THEN Return(Note(tried.result, Reason("AI parsing error", None)))
       ELSE IF IsException(tried.raised)
       THEN Return(Note(tried.result, Reason("AI error", None)))
       ELSE tried

----------------------------------------------------------------------------
(* The outcomes of the model call the LLM strategy is applied to. *)

T_yes == <<"y", "e", "s">>
T_harlem == <<"H", "a", "r", "l", "e", "m">>
T_2400 == <<"2", "4", "0", "0">>

\* The JSON objects: every combination of these values of the fields. (The
\* length given to the dict plays no part: parse_listing only reads keys.)
Objects ==
    {Doc(Dict(8), is_offering, has_exclusion, exclusion_reason, price,
         apartment_type, neighborhood, matches_criteria) :
        is_offering \in {Absent, Bool(TRUE), Bool(FALSE), Str(T_yes)},
        has_exclusion \in {Absent, Bool(TRUE), Bool(FALSE)},
        exclusion_reason \in {Absent, Str(T_sublet)},
        price \in {None, Num(1000), Num(price_min), Num(price_max), Num(4500),
                   NaN, Str(T_2400)},
        apartment_type \in {None, Str(T_1BR)},
        neighborhood \in {None, Str(<<>>), Str(T_East_Village), Str(T_harlem)},
        matches_criteria \in {Absent, Bool(TRUE), Bool(FALSE)}}

\* An object that passes, and JSON values that are not objects.
GoodObject ==
    Doc(Dict(8), Bool(TRUE), Bool(FALSE), None, Num(price_max), Str(T_1BR),
        Str(T_East_Village), Bool(TRUE))
Scalars == {Scalar(v) : v \in {None, Bool(TRUE), Num(2400), Str(T_yes), List(0), List(2)}}

\* The texts: a document alone, and the ways a document, a fence, the word
\* json, white space and prose come together.
Texts ==
    {<<Value(doc)>> : doc \in Objects \cup Scalars}
    \cup {<<>>, <<Prose>>, <<Fence>>, <<Deep>>, <<JsonWord, Value(GoodObject)>>,
          <<Value(GoodObject), Prose>>,
          <<Space, Value(GoodObject), Space>>,
          <<Fence, JsonWord, Space, Value(GoodObject), Space, Fence>>,
          <<Fence, Space, Value(GoodObject), Space, Fence>>,
          <<Fence, JsonWord, Value(GoodObject), Fence, Space, Prose>>,
          <<Fence, JsonWord, Space, Value(GoodObject)>>,
          <<Fence, JsonWord, Space, Value(Scalar(List(2))), Space, Fence>>,
          <<Fence, Prose, Value(GoodObject), Fence>>,
          <<Prose, Fence, JsonWord, Value(GoodObject), Fence>>}

Block(type, text) == [type |-> type, text |-> text]

Outcomes ==
    {[raises |-> class, content |-> <<>>] : class \in {"APITimeoutError", "APIStatusError"}}
    \cup {[raises |-> "none", content |-> <<>>],
          [raises |-> "none", content |-> <<Block("tool_use", <<>>)>>]}
    \cup {[raises |-> "none", content |-> <<Block("text", text)>>] : text \in Texts}


\* No listing in hand, and no call made.
NoPost == [title |-> <<>>, selftext |-> <<>>, flair |-> None]
NoResponse == [raises |-> "none", content |-> <<>>]

----------------------------------------------------------------------------
(* The state after installation: no storage file, an empty worksheet, the     *)
(* process started (with or without --test) and its store constructed.       *)

Init ==
    /\ seen_posts = {}
    /\ file = AbsentFile
    /\ pc = "idle"
    /\ new_posts = <<>>
    /\ all_results = <<>>
    /\ test_mode \in BOOLEAN
    /\ sheet = {}
    /\ classified = [once |-> {}, again |-> {}]
    /\ order = <<>>
    /\ hist = NoHist
    /\ use_ai \in BOOLEAN
    /\ cur_post = NoPost
    /\ response = NoResponse
    /\ cur_result = NewResult

----------------------------------------------------------------------------
(* Spec: main.py. run_scrape_cycle is taken in steps, one per call that acts *)
(* on the world, so that an interrupt can fall between any two of them.      *)

\* scraper.fetch_new_posts and storage.filter_unseen. The feed shows any of the
\* listings, each once, in the order of their ids. With nothing fetched or
\* nothing new the cycle returns at once.
Fetch ==
    /\ pc = "idle"
    /\ \E shown \in SUBSET Ids :
         LET posts == Ascending(shown)
             unseen == filter_unseen(posts)
         IN IF posts = <<>> \/ unseen = <<>>
            THEN UNCHANGED <<pc, new_posts, all_results, hist>>
            ELSE /\ pc' = "classify"
                 /\ new_posts' = unseen
                 /\ all_results' = <<>>
                 /\ hist' = NoHist
    /\ UNCHANGED <<seen_posts, file, test_mode, sheet, classified, order>>
    /\ UNCHANGED classify_vars

\* A loop that marks each listing seen as soon as it is classified.
ClassifyAndMark ==
    /\ pc = "classify"
    /\ LET post == new_posts[Len(all_results) + 1]
       IN /\ all_results' = Append(all_results, post)
          /\ classified' = [once |-> classified.once \cup {post},
                            again |-> classified.again \cup (classified.once \cap {post})]
          /\ seen_posts' = seen_posts \cup {post}
          /\ pc' = IF Len(all_results) + 1 = Len(new_posts) THEN "sink" ELSE "classify"
    /\ UNCHANGED <<file, new_posts, test_mode, sheet, order, hist>>
    /\ UNCHANGED classify_vars

\* filter_listings / parse_listings, one listing of the loop: the next new post
\* is handed to filter_listing or parse_listing and its pair is appended. The
\* cycle reads the results only to count and log them.
Classify ==
    /\ pc = "classify"
    /\ LET post == new_posts[Len(all_results) + 1]
       IN /\ all_results' = Append(all_results, post)
          /\ classified' = [once |-> classified.once \cup {post},
                            again |-> classified.again \cup (classified.once \cap {post})]
          /\ pc' = IF Len(all_results) + 1 = Len(new_posts) THEN "sink" ELSE "classify"
    /\ UNCHANGED <<seen_posts, file, new_posts, test_mode, sheet, order, hist>>
    /\ UNCHANGED classify_vars

\* sheets.add_listings(all_results) unless in test mode (the worksheet is
\* connected whenever the process runs without --test). A listing whose link
\* is in the sheet is skipped; append_row of any other may fail, which
\* add_listing catches.
Sink ==
    /\ pc = "sink"
    /\ IF test_mode
       THEN UNCHANGED sheet
       ELSE \E appended \in SUBSET (Range(all_results) \ sheet) :
              sheet' = sheet \cup appended
    /\ pc' = "mark"
    /\ UNCHANGED <<seen_posts, file, new_posts, all_results, test_mode, classified,
                   order, hist>>
    /\ UNCHANGED classify_vars

\* storage.mark_many_seen([p["id"] for p in new_posts]), up to the write.
Mark ==
    /\ pc = "mark"
    /\ mark_many_seen(new_posts)
    /\ pc' = "open"
    /\ UNCHANGED <<new_posts, all_results, test_mode, sheet, classified, order>>
    /\ UNCHANGED classify_vars

\* _save's open; when it fails, mark_many_seen and the cycle return.
CycleSaveOpen ==
    /\ pc = "open"
    /\ \E fails \in BOOLEAN :
         /\ SaveOpen(fails)
         /\ pc' = IF fails THEN "idle" ELSE "dump"
         /\ new_posts' = IF fails THEN <<>> ELSE new_posts
         /\ all_results' = IF fails THEN <<>> ELSE all_results
    /\ UNCHANGED <<test_mode, sheet, classified, order>>
    /\ UNCHANGED classify_vars

\* _save's write; mark_many_seen and the cycle return.
CycleSaveDump ==
    /\ pc = "dump"
    /\ \E fails \in BOOLEAN : SaveDump(fails)
    /\ pc' = "idle"
    /\ new_posts' = <<>>
    /\ all_results' = <<>>
    /\ UNCHANGED <<test_mode, sheet, classified, order>>
    /\ UNCHANGED classify_vars

\* The process ends: a run without --daemon is over, Ctrl+C (KeyboardInterrupt
\* passes every except clause of the cycle), a kill, a power cut.
Interrupt ==
    /\ pc # "down"
    /\ Die
    /\ new_posts' = <<>>
    /\ all_results' = <<>>
    /\ UNCHANGED <<test_mode, sheet, classified, order>>
    /\ UNCHANGED classify_vars

\* main() again: the store is constructed from the file.
Restart ==
    /\ pc = "down"
    /\ Construct
    /\ pc' = IF ConstructRaises(file) THEN "down" ELSE "idle"
    /\ UNCHANGED <<new_posts, all_results, test_mode, sheet, classified, order>>
    /\ UNCHANGED classify_vars

Next ==
    \/ Fetch
    \/ Classify
    \/ Sink
    \/ Mark
    \/ CycleSaveOpen
    \/ CycleSaveDump
    \/ Interrupt
    \/ Restart

Spec == Init /\ [][Next]_vars

----------------------------------------------------------------------------
(* SpecStore: a client calling the store's operations. *)

cycle_vars == <<new_posts, all_results, test_mode, sheet, classified, classify_vars>>

\* The insertion order after post_ids were added to the set.
Inserted(post_ids) == AppendNew(Restrict(order, seen_posts), post_ids)

\* A new store on the file. The ids read count as inserted in ascending order.
StoreLoad ==
    /\ pc \in {"idle", "down", "no_store"}
    /\ Construct
    /\ order' = Ascending(_load(file))
    /\ pc' = IF ConstructRaises(file) THEN "no_store" ELSE "idle"
    /\ UNCHANGED cycle_vars

StoreMarkSeen ==
    /\ pc = "idle"
    /\ \E post_id \in Ids :
         /\ mark_seen(post_id)
         /\ order' = Inserted(<<post_id>>)
    /\ UNCHANGED <<pc, cycle_vars>>

\* Every list of at most MaxBatch ids, repeats included, is passed; a repeated id
\* is added again to no effect (set.add), so the lists are taken by their ids in
\* the order of first occurrence.
StoreMarkManySeen ==
    /\ pc = "idle"
    /\ \E ids \in {AppendNew(<<>>, post_ids) : post_ids \in SeqsUpTo(Ids, MaxBatch)} :
         /\ mark_many_seen(ids)
         /\ order' = Inserted(ids)
    /\ pc' = "open"
    /\ UNCHANGED cycle_vars

StoreSaveOpen ==
    /\ pc = "open"
    /\ \E fails \in BOOLEAN :
         /\ SaveOpen(fails)
         /\ pc' = IF fails THEN "idle" ELSE "dump"
    /\ UNCHANGED <<order, cycle_vars>>

StoreSaveDump ==
    /\ pc = "dump"
    /\ \E fails \in BOOLEAN : SaveDump(fails)
    /\ pc' = "idle"
    /\ UNCHANGED <<order, cycle_vars>>

StoreCrash ==
    /\ pc \in {"open", "dump"}
    /\ Die
    /\ order' = <<>>
    /\ UNCHANGED cycle_vars

\* While no store is open on it, the file is replaced from outside the
\* program, or deleted.
StoreFileReplaced ==
    /\ pc \in {"down", "no_store"}
    /\ file' \in ForeignFiles \cup {AbsentFile}
    /\ file' # file
    /\ hist' = NoHist
    /\ UNCHANGED <<seen_posts, pc, order>>
    /\ UNCHANGED cycle_vars

NextStore ==
    \/ StoreFileReplaced
    \/ StoreLoad
    \/ StoreMarkSeen
    \/ StoreMarkManySeen
    \/ StoreSaveOpen
    \/ StoreSaveDump
    \/ StoreCrash

\* The client runs no cycle; --test and the strategy play no part.
InitStore == Init /\ ~test_mode /\ ~use_ai

SpecStore == InitStore /\ [][NextStore]_vars

----------------------------------------------------------------------------
(* SpecClassify: filter_listings or parse_listings, whichever main()          *)
(* selected, called with batches of listings.                                 *)

\* The longest batch.
MaxListings == 2

store_vars == <<seen_posts, file, test_mode, sheet, classified, order, hist>>

\* filter_listings(posts) or parse_listings(posts) is called: all_results = [].
ClassifyStart ==
    /\ pc = "idle"
    /\ \E n \in 1..MaxListings : new_posts' = [i \in 1..n |-> i]
    /\ all_results' = <<>>
    /\ pc' = "call"
    /\ UNCHANGED <<use_ai, cur_post, response, cur_result, store_vars>>

\* result = self.filter_listing(post), for any listing.
FilterListing ==
    /\ pc = "call"
    /\ ~use_ai
    /\ \E p \in Posts :
         /\ cur_post' = p
         /\ cur_result' = filter_listing(p)
    /\ pc' = "append"
    /\ UNCHANGED <<use_ai, response, new_posts, all_results, store_vars>>

\* result = self.parse_listing(post), for any outcome of the model call. The
\* listing reaches the model in the prompt only, and the model may answer
\* anything. An exception that leaves parse_listing leaves parse_listings too.
ParseListing ==
    /\ pc = "call"
    /\ use_ai
    /\ \E outcome \in Outcomes :
         LET returned == parse_listing(outcome)
         IN /\ response' = outcome
            /\ cur_result' = returned.result
            /\ pc' = IF returned.raised = "none" THEN "append" ELSE "raised"
    /\ UNCHANGED <<use_ai, cur_post, new_posts, all_results, store_vars>>

\* all_results.append((post, result)), and the loop goes to the next listing
\* or the function returns all_results.
AppendPair ==
    /\ pc = "append"
    /\ all_results' = Append(all_results, new_posts[Len(all_results) + 1])
    /\ pc' = IF Len(all_results) + 1 = Len(new_posts) THEN "idle" ELSE "call"
    /\ cur_post' = NoPost
    /\ response' = NoResponse
    /\ cur_result' = NewResult
    /\ UNCHANGED <<use_ai, new_posts, store_vars>>

NextClassify ==
    \/ ClassifyStart
    \/ FilterListing
    \/ ParseListing
    \/ AppendPair

\* The store is left as it starts; --test plays no part.
InitClassify == Init /\ ~test_mode

SpecClassify == InitClassify /\ [][NextClassify]_vars

----------------------------------------------------------------------------
(* The claims about the store, under SpecStore. *)

\* A mark_many_seen call has returned to its caller.
Returned ==
    /\ hist.op = "mark_many_seen"
    /\ hist.stage \in {"saved", "failed"}
    /\ ~hist.reloaded

\* C1: Across scrape cycles and restarts, each listing id is handed to the
\* classifier at most once. (Checked under Spec.)
C1_ClassifiedAtMostOnce ==
    \A post_id \in Ids : post_id \notin classified.again

\* C2: Eviction is by insertion order. When a mark_many_seen call has returned
\* and more ids than the bound were inserted, the store holds exactly the
\* MaxSeen most recently inserted ids, and no id inserted earlier is_seen.
C2_EvictionByInsertionOrder ==
    (Returned /\ Len(order) > MaxSeen) =>
        /\ seen_posts = Range(LastN(order, MaxSeen))
        /\ \A i \in 1..(Len(order) - MaxSeen) : ~is_seen(order[i])

\* C3: The save of a batch is atomic. When the process died inside the _save of
\* mark_many_seen and a store was then constructed from the file, that store
\* holds the set the file held before the batch or the set of the store after
\* the batch. (The set in memory before the batch is empty whenever the file's
\* is, so reading "pre-batch" as the set in memory allows nothing more.)
C3_SaveIsAtomic ==
    (hist.op = "mark_many_seen" /\ hist.stage = "crashed" /\ hist.reloaded) =>
        seen_posts \in {hist.prefile, hist.post}

\* C4: Round trip. When mark_many_seen was called on an empty store with no
\* more distinct ids than the bound, the file was written, and a new store was
\* then constructed from the file, every id of the batch is_seen and get_count
\* is the number of distinct ids of the batch.
C4_RoundTrip ==
    (/\ hist.op = "mark_many_seen"
     /\ hist.on_empty
     /\ hist.stage = "saved"
     /\ hist.reloaded
     /\ pc = "idle"
     /\ Cardinality(hist.batch) <= MaxSeen) =>
        /\ \A post_id \in hist.batch : is_seen(post_id)
        /\ get_count = Cardinality(hist.batch)

\* C4's case: a batch of exactly MaxSeen distinct ids, written from an empty
\* store and read back by a new store.
C4_Witness ==
    /\ hist.op = "mark_many_seen"
    /\ hist.on_empty
    /\ hist.stage = "saved"
    /\ hist.reloaded
    /\ pc = "idle"
    /\ Cardinality(hist.batch) = MaxSeen
    /\ seen_posts = hist.batch

\* C5: In every state the in-memory seen set holds at most MaxSeen ids.
C5_SeenSetBounded ==
    pc \in {"idle", "open", "dump"} => get_count <= MaxSeen

\* A step that invokes mark_many_seen.
MarkInvoked ==
    /\ hist'.op = "mark_many_seen"
    /\ hist'.stage = "saving"
    /\ hist # hist'

\* C12: Within one scrape cycle mark_many_seen is invoked at most once (no
\* call of it came before in the cycle), with the ids of all the new listings
\* of the batch (they are all added, where the bound has room for them, and
\* nothing else is), and only when the classification of every listing of the
\* batch has returned; no step of the running process changes the seen set but
\* that call, so the set is the same between two classifications of a batch.
\* (Checked under Spec.)
C12_MarkOnceAfterClassification ==
    [][/\ MarkInvoked =>
            /\ pc = "mark"
            /\ hist.op = "none"
            /\ hist'.post \subseteq seen_posts \cup Range(new_posts)
            /\ all_results = new_posts
       /\ (seen_posts' # seen_posts /\ pc # "down" /\ pc' # "down") => MarkInvoked
       /\ (MarkInvoked /\ Cardinality(seen_posts \cup Range(new_posts)) <= MaxSeen) =>
            seen_posts' = seen_posts \cup Range(new_posts)
       /\ (pc = "classify" /\ pc' # "down") => seen_posts' = seen_posts]_vars

\* C12's case: a batch of several listings was classified and then marked.
C12_Witness ==
    /\ pc = "open"
    /\ hist.op = "mark_many_seen"
    /\ Len(new_posts) >= 2
    /\ all_results = new_posts
    /\ seen_posts = Range(new_posts)

\* C11: Constructing the store never raises, whatever the file holds: every
\* construction by a client that has no store (the one step such a client
\* takes that leaves the file alone) ends with a store, and on a file that is
\* absent or is not the expected document that store starts with the empty
\* set.
C11_ConstructNeverRaises ==
    [][(pc \in {"down", "no_store"} /\ file' = file) =>
            /\ pc' = "idle"
            /\ file.kind # "doc" => seen_posts' = {}]_vars

----------------------------------------------------------------------------
(* The claims about the two classification strategies, under SpecClassify.   *)
(* A call has returned when pc = "append": cur_post or response is what it   *)
(* was given and cur_result what it returned.                                *)

\* f"{title} {body}"
FullText(p) == p.title \o <<" ">> \o p.selftext

\* The last element of a list.
Last(s) == s[Len(s)]

\* C6: Every result of filter_listing with passed = true satisfies all of: no
\* exclusion term matched the title and body, extracted_price is None or lies
\* in [price_min, price_max], and matched_neighborhood is one of the configured
\* locations (as the filter keeps them, lower-cased); a listing with no
\* location match never passes.
C6_PassedMeetsCriteria ==
    (pc = "append" /\ ~use_ai /\ cur_result.passed) =>
        /\ _fuzzy_match_any(FullText(cur_post), exclude_terms) = None
        /\ \/ cur_result.extracted_price = None
           \/ /\ price_min <= cur_result.extracted_price.n
              /\ cur_result.extracted_price.n <= price_max
        /\ cur_result.matched_neighborhood # None
        /\ cur_result.matched_neighborhood.s \in Range(neighborhoods)
        /\ _fuzzy_match_any(FullText(cur_post), neighborhoods) # None

\* C6's case: a listing passed with no price found and its location matched
\* through a misspelling.
C6_Witness ==
    /\ pc = "append"
    /\ ~use_ai
    /\ cur_result.passed
    /\ cur_result.extracted_price = None
    /\ cur_result.matched_neighborhood = Str(lower(T_Williamsburg))
    /\ ~SearchWord(lower(FullText(cur_post)), lower(T_Williamsburg))

\* The reasons a failing check of filter_listing appends.
DecidingReasons ==
    {"Not an offering (appears to be a request)", "Excluded term found",
     "Price below minimum", "Price above maximum", "No matching neighborhood found"}

\* C7: For every failing result of filter_listing, reasons[0] is the reason of
\* the check that decided the failure: it is the reason the failing check
\* appended (the last one), whichever check failed.
C7_FirstReasonDecides ==
    (pc = "append" /\ ~use_ai /\ ~cur_result.passed) =>
        /\ cur_result.reasons # <<>>
        /\ cur_result.reasons[1].text \in DecidingReasons
        /\ cur_result.reasons[1] = Last(cur_result.reasons)

\* C8: Every result of parse_listing with passed = true comes from a response
\* that reported an offering, no exclusion, a price that is null or a number
\* within [price_min, price_max], and a location that is one of the configured
\* target locations (letter case aside).
C8_ParsePassedMeetsContract ==
    (pc = "append" /\ use_ai /\ cur_result.passed) =>
        LET ai_data == cur_result.ai_response
            price == get(ai_data.price)
            neighborhood == get(ai_data.neighborhood)
        IN /\ Truthy(get(ai_data.is_offering))
           /\ ~Truthy(get(ai_data.has_exclusion))
           /\ \/ price = None
              \/ price.t = "num" /\ price_min <= price.n /\ price.n <= price_max
           /\ neighborhood.t = "str"
           /\ lower(neighborhood.s) \in Range(neighborhoods)

\* A response whose text is the passing object inside a ```json fence.
FencedGood ==
    [raises |-> "none",
     content |-> <<Block("text", <<Fence, JsonWord, Space, Value(GoodObject),
                                   Space, Fence>>)>>]

\* C9: Whatever the outcome of the model call, parse_listing returns a result
\* and never raises: a decode failure yields passed = false with an 'AI
\* parsing error' reason, any other exception yields passed = false with an
\* 'AI error' reason, an object inside a code fence is read as the object, and
\* when parse_listings has returned it has one pair for every listing.
C9_ParseListingNeverRaises ==
    /\ pc # "raised"
    /\ (pc = "append" /\ use_ai) =>
          LET tried == Attempt(response)
          IN /\ tried.raised = "JSONDecodeError" =>
                  /\ ~cur_result.passed
                  /\ cur_result.reasons # <<>>
                  /\ Last(cur_result.reasons).text = "AI parsing error"
             /\ tried.raised \notin {"none", "JSONDecodeError"} =>
                  /\ ~cur_result.passed
                  /\ cur_result.reasons # <<>>
                  /\ Last(cur_result.reasons).text = "AI error"
             /\ response = FencedGood =>
                  /\ cur_result.passed
                  /\ cur_result.ai_response = GoodObject
    /\ (pc = "idle" /\ use_ai) => Len(all_results) = Len(new_posts)

\* C9's case: the call for the second listing of a batch timed out, after the
\* pair of the first was appended, and parse_listing returned an 'AI error'
\* result.
C9_Witness ==
    /\ pc = "append"
    /\ use_ai
    /\ Len(new_posts) = 2
    /\ Len(all_results) = 1
    /\ response.raises = "APITimeoutError"
    /\ ~cur_result.passed
    /\ cur_result.reasons = <<Reason("AI error", None)>>

\* C10: In both strategies every result with passed = false has a non-empty
\* reasons list.
C10_FailureHasReason ==
    (pc = "append" /\ ~cur_result.passed) => cur_result.reasons # <<>>

\* C10's case: filter_listing returned early on an exclusion term, with that
\* one reason.
C10_Witness ==
    /\ pc = "append"
    /\ ~use_ai
    /\ ~cur_result.passed
    /\ Len(cur_result.reasons) = 1
    /\ cur_result.reasons[1].text = "Excluded term found"

----------------------------------------------------------------------------
(* The claims about the checks of filter_listing, one by one, under          *)
(* SpecClassify.                                                              *)

\* The title holds a seeking phrase, as the offering check reads it.
Seeking(p) == \E x \in SeekingPhrases : Contains(lower(p.title), x)

\* The flair holds "offering" or "listing" in any case.
FlairOffers(p) ==
    /\ p.flair.t = "str"
    /\ \/ Contains(lower(p.flair.s), W_offering)
       \/ Contains(lower(p.flair.s), W_listing)

\* The texts of the reasons of a result.
ReasonTexts(result) == {result.reasons[i].text : i \in DOMAIN result.reasons}

LocationReasons == {"Matched neighborhood", "No matching neighborhood found"}

NotAnOffering == "Not an offering (appears to be a request)"

\* C13: When the offering check does not reject a listing and an exclusion
\* term matches its title and body, filter_listing returns passed = false with
\* exactly one reason, which names the matched term, one of the configured
\* ones; extracted_price, matched_type and matched_neighborhood stay None and
\* no reason mentions the location.
C13_ExclusionShortCircuits ==
    (pc = "append" /\ ~use_ai /\ ~(~FlairOffers(cur_post) /\ Seeking(cur_post))) =>
        LET term == _fuzzy_match_any(FullText(cur_post), exclude_terms)
        IN term # None =>
            /\ ~cur_result.passed
            /\ Len(cur_result.reasons) = 1
            /\ cur_result.reasons[1].text = "Excluded term found"
            /\ cur_result.reasons[1].detail = term
            /\ \E i \in DOMAIN exclude_terms : term = Str(exclude_terms[i])
            /\ cur_result.extracted_price = None
            /\ cur_result.matched_type = None
            /\ cur_result.matched_neighborhood = None
            /\ ReasonTexts(cur_result) \cap LocationReasons = {}

\* C13's case: an offering with an exclusion term that also has a price in
\* range, a type and a location, all of which the return leaves unread.
C13_Witness ==
    /\ pc = "append" /\ ~use_ai
    /\ FlairOffers(cur_post)
    /\ _fuzzy_match_any(FullText(cur_post), exclude_terms) # None
    /\ extract_price(FullText(cur_post)) = Num(price_max)
    /\ _check_apartment_type(FullText(cur_post)) # None
    /\ _check_neighborhood(FullText(cur_post)) # None
    /\ Len(cur_result.reasons) = 1


\* C14: A listing is rejected as not an offering exactly when its flair holds
\* neither "offering" nor "listing" in any case and its lower-cased title holds
\* one of the seeking phrases; the check runs before all others, so the result
\* then has that single reason and nothing else filled in; a listing whose
\* flair indicates an offering is never rejected by this check.
C14_OfferingCheck ==
    (pc = "append" /\ ~use_ai) =>
        LET rejected == NotAnOffering \in ReasonTexts(cur_result)
        IN /\ rejected <=> (~FlairOffers(cur_post) /\ Seeking(cur_post))
           /\ rejected => cur_result = Note(NewResult, Reason(NotAnOffering, None))
           /\ FlairOffers(cur_post) => ~rejected

\* C14's case: a listing with a flair that is no offering and a seeking title
\* is rejected, although it names an exclusion term and a location.
C14_Witness ==
    /\ pc = "append" /\ ~use_ai
    /\ cur_post.flair = Str(F_Looking)
    /\ Seeking(cur_post)
    /\ _fuzzy_match_any(FullText(cur_post), exclude_terms) # None
    /\ _check_neighborhood(FullText(cur_post)) # None
    /\ cur_result.reasons = <<Reason(NotAnOffering, None)>>

\* The listing came past the offering check and the exclusion check: neither
\* gave the result its first reason (C13 and C14 tie these reasons to the
\* listing).
ReachedPriceCheck(result) ==
    /\ result.reasons # <<>>
    /\ result.reasons[1].text \notin {NotAnOffering, "Excluded term found"}

PriceFailures == {"Price below minimum", "Price above maximum"}

\* C15: A listing that came past the offering and exclusion checks fails at
\* the price check exactly when a price was extracted and it is below
\* price_min or above price_max (a price equal to either bound does not fail),
\* and then the one reason cites the bound that was broken; a listing with no
\* extractable price is never failed by the price check and goes on to the
\* type and location checks.
C15_PriceCheck ==
    (pc = "append" /\ ~use_ai /\ ReachedPriceCheck(cur_result)) =>
        LET price == cur_result.extracted_price
            failed == ReasonTexts(cur_result) \cap PriceFailures # {}
        IN /\ failed <=> (price # None /\ (price.n < price_min \/ price.n > price_max))
           /\ failed =>
                /\ ~cur_result.passed
                /\ Len(cur_result.reasons) = 1
                /\ cur_result.reasons[1] =
                       IF price.n < price_min
                       THEN PriceReason("Price below minimum", price, price_min)
                       ELSE PriceReason("Price above maximum", price, price_max)
           /\ price = None =>
                /\ extract_price(FullText(cur_post)) = None
                /\ cur_result.reasons[1].text = "No price detected"
                /\ Len(cur_result.reasons) = 3
                /\ cur_result.reasons[3].text \in LocationReasons
           /\ price # None => price = extract_price(FullText(cur_post))

\* C15's case: a price above the range fails a listing that has a location.
C15_Witness ==
    /\ pc = "append" /\ ~use_ai /\ ReachedPriceCheck(cur_result)
    /\ cur_result.extracted_price # None
    /\ cur_result.extracted_price.n > price_max
    /\ _check_neighborhood(FullText(cur_post)) # None
    /\ cur_result.reasons =
          <<PriceReason("Price above maximum", cur_result.extracted_price, price_max)>>

\* The outcomes of the four checks other than the type check are all good.
OtherChecksGood(p, result) ==
    LET price == extract_price(FullText(p))
    IN /\ ReachedPriceCheck(result)
       /\ price = None \/ (price_min <= price.n /\ price.n <= price_max)
       /\ _fuzzy_match_any(FullText(p), neighborhoods) # None

\* C16: The type check never gates the verdict. passed is a function of the
\* outcomes of the offering, exclusion, price and location checks alone (so
\* two listings that agree on these four get the same passed, whether or not a
\* type matched); a type that was not found only leaves matched_type None and
\* is noted, and the location check still runs.
C16_TypeNeverGates ==
    (pc = "append" /\ ~use_ai) =>
        /\ cur_result.passed <=> OtherChecksGood(cur_post, cur_result)
        /\ Len(cur_result.reasons) = 3 =>
              /\ (cur_result.matched_type = None) <=>
                    (_fuzzy_match_any(FullText(cur_post), apartment_types) = None)
              /\ (cur_result.matched_type = None) <=>
                    (cur_result.reasons[2].text = "No matching apartment type found")
              /\ cur_result.reasons[3].text \in LocationReasons

\* C16's case: a listing in which no type is found passes.
C16_Witness ==
    /\ pc = "append" /\ ~use_ai
    /\ _fuzzy_match_any(FullText(cur_post), apartment_types) = None
    /\ cur_result.matched_type = None
    /\ cur_result.passed

\* Candidate i of the cascade is a number within the band of plausible rents.
Plausible(candidates, i) ==
    LET value == ParseInt(candidates[i])
    IN value # None /\ MinRent <= value.n /\ value.n <= MaxRent

\* C17: extract_price returns the first candidate, in cascade order (pattern 1
\* to 5, left to right within a pattern), whose value with the thousands
\* separators stripped lies in [500, 15000]; candidates out of the band or not
\* numeric are passed over, and the result is None exactly when no candidate
\* is in the band. (Read from extracted_price of a result that reached the
\* price check.)
C17_FirstPlausiblePrice ==
    (pc = "append" /\ ~use_ai /\ ReachedPriceCheck(cur_result)) =>
        LET candidates == Candidates(FullText(cur_post))
            price == cur_result.extracted_price
        IN /\ price = None <=> \A i \in DOMAIN candidates : ~Plausible(candidates, i)
           /\ price # None =>
                \E i \in DOMAIN candidates :
                    /\ Plausible(candidates, i)
                    /\ price = ParseInt(candidates[i])
                    /\ \A j \in 1..(i - 1) : ~Plausible(candidates, j)

\* C17's case: the first candidate ($300) is out of the band and is passed
\* over for a later one of another pattern.
C17_Witness ==
    /\ pc = "append" /\ ~use_ai /\ ReachedPriceCheck(cur_result)
    /\ Len(Candidates(FullText(cur_post))) >= 2
    /\ ~Plausible(Candidates(FullText(cur_post)), 1)
    /\ cur_result.extracted_price # None

----------------------------------------------------------------------------
(* The claims about _fuzzy_match_any, under SpecClassify: what the checks of *)
(* filter_listing got from it is read from the result.                       *)

\* What _check_exclusions returned, for a result that came past the offering
\* check.
ExcludedTerm(result) ==
    IF result.reasons[1].text = "Excluded term found"
    THEN result.reasons[1].detail ELSE None

\* The term is found in the text by the exact tier.
ExactMatch(text, term) == SearchWord(lower(text), term)

\* The term is found in the text by the fuzzy tier.
FuzzyMatch(text, term) ==
    Len(split(term)) <= 1 /\ FuzzyWord(split(lower(text)), term)

\* The term qualifies for the text: on its own it is matched.
Qualifies(text, term) == ExactMatch(text, term) \/ FuzzyMatch(text, term)

\* short is a substring of long and not long itself.
WithinTerm(short, long) == short # long /\ Contains(long, short)

\* found is not the shorter of two qualifying terms, one within the other.
LongestQualifying(text, terms, found) ==
    \A i, j \in DOMAIN terms :
        (/\ WithinTerm(terms[i], terms[j])
         /\ found = Str(terms[i])
         /\ Qualifies(text, terms[i])) => ~Qualifies(text, terms[j])

\* found is the longest term of the tier that decides: the exact tier when it
\* finds any term, else the fuzzy tier.
LongestOfTier(text, terms, found) ==
    LET exact == {i \in DOMAIN terms : ExactMatch(text, terms[i])}
        tier == IF exact # {} THEN exact
                ELSE {i \in DOMAIN terms : FuzzyMatch(text, terms[i])}
    IN /\ found = None <=> tier = {}
       /\ found # None =>
            \E i \in tier :
                /\ found = Str(terms[i])
                /\ \A j \in tier : Len(terms[j]) <= Len(terms[i])

\* C18, as stated: _fuzzy_match_any is case-insensitive (the text is matched
\* lower-cased against the terms lower-cased) and, when several configured
\* terms qualify for the text and one is a substring of another, the term
\* returned is not the shorter of the two.
C18_LongestQualifying ==
    (pc = "append" /\ ~use_ai) =>
        /\ ~(~FlairOffers(cur_post) /\ Seeking(cur_post)) =>
              LongestQualifying(FullText(cur_post), exclude_terms,
                                ExcludedTerm(cur_result))
        /\ Len(cur_result.reasons) = 3 =>
              /\ LongestQualifying(FullText(cur_post), neighborhoods,
                                   cur_result.matched_neighborhood)
              /\ LongestQualifying(FullText(cur_post), apartment_types,
                                   cur_result.matched_type)

\* C18, amended: _fuzzy_match_any is case-insensitive and returns the longest
\* of the configured terms the exact tier finds; only when the exact tier
\* finds none, the longest of the single-word terms the fuzzy tier finds. So
\* of two terms found by the same tier, one a substring of the other, the
\* longer is returned, and a term found by the exact tier is preferred to any
\* term found by the fuzzy tier alone.
C18_LongestOfTier ==
    (pc = "append" /\ ~use_ai) =>
        /\ ~(~FlairOffers(cur_post) /\ Seeking(cur_post)) =>
              LongestOfTier(FullText(cur_post), exclude_terms,
                            ExcludedTerm(cur_result))
        /\ Len(cur_result.reasons) = 3 =>
              /\ LongestOfTier(FullText(cur_post), neighborhoods,
                               cur_result.matched_neighborhood)
              /\ LongestOfTier(FullText(cur_post), apartment_types,
                               cur_result.matched_type)

\* C18's case: "East Village" in the text, with "Village" and "East Village"
\* both configured, is reported as east village.
C18_Witness ==
    /\ pc = "append" /\ ~use_ai
    /\ ExactMatch(FullText(cur_post), lower(T_Village))
    /\ ExactMatch(FullText(cur_post), lower(T_East_Village))
    /\ cur_result.matched_neighborhood = Str(lower(T_East_Village))

P_Wburg == <<"W", "b", "u", "r", "g">>

\* C19: A listing whose only mention of a location is the abbreviation Wburg,
\* with williamsburg configured, and which is no request, holds no exclusion
\* term and has no price out of range, gets williamsburg as its location
\* through the fuzzy tier: passed = true and matched_neighborhood is
\* williamsburg. (test_filter.py expects this of its listing 2.)
C19_AbbreviationMatches ==
    (/\ pc = "append" /\ ~use_ai
     /\ Contains(cur_post.title, P_Wburg)
     /\ ReachedPriceCheck(cur_result)
     /\ Len(cur_result.reasons) = 3) =>
        /\ cur_result.passed
        /\ cur_result.matched_neighborhood = Str(lower(T_Williamsburg))

----------------------------------------------------------------------------
(* The claim about a write that fails, under Spec. *)

\* C20: If writing the storage file fails during mark_many_seen (open or the
\* write raises IOError), the call returns and the scrape cycle completes (the
\* process is idle again), and every id of the batch, a batch the bound has
\* room for, is_seen in memory when the call has returned.
C20_FailedSaveKeepsBatch ==
    [][(/\ hist.op = "mark_many_seen"
        /\ hist.stage = "saving"
        /\ hist'.op = "mark_many_seen"
        /\ hist'.stage = "failed"
        /\ Len(new_posts) <= MaxSeen) =>
            /\ pc' = "idle"
            /\ \A post_id \in Range(new_posts) : post_id \in seen_posts']_vars

----------------------------------------------------------------------------
(* The claim about delivery to the sheet, under Spec. *)

\* C21: In a cycle that is not a test, every listing the cycle marks as seen
\* has first been recorded in the sheet (appended in this cycle or already
\* there by its link): once mark_many_seen has been called on the batch,
\* every listing of the batch is in the sheet.
C21_MarkedOnlyWhenDelivered ==
    (~test_mode /\ pc \in {"open", "dump"}) =>
        \A post_id \in Range(new_posts) : post_id \in sheet

----------------------------------------------------------------------------
(* The claim about the two strategies on one listing, under SpecClassify:    *)
(* filter_listing has returned cur_result for cur_post, and parse_listing is *)
(* applied to a response that reports what the deterministic engine derives. *)

\* What the deterministic engine derives for listing p, check by check.
DerivedFacts(p) ==
    [offering |-> ~(~_check_offering_tag(p.flair) /\ Seeking(p)),
     exclude_term |-> _check_exclusions(FullText(p)),
     price |-> extract_price(FullText(p)),
     hood |-> _check_neighborhood(FullText(p))]

\* The JSON object that reports these facts: is_offering false exactly when
\* the offering check rejects, has_exclusion the exclusion match, price the
\* extract_price result, neighborhood the matched location or null,
\* matches_criteria offering and location matched and no exclusion.
\* apartment_type and exclusion_reason are whatever the response gives.
FaithfulDoc(facts, apartment_type, exclusion_reason) ==
    Doc(Dict(8), Bool(facts.offering), Bool(facts.exclude_term # None),
        exclusion_reason, facts.price, apartment_type, facts.hood,
        Bool(facts.offering /\ facts.hood # None /\ facts.exclude_term = None))

\* The response texts that carry the document: alone, within white space, in
\* a code block.
Carriers(doc) ==
    {<<Value(doc)>>, <<Space, Value(doc), Space>>,
     <<Fence, JsonWord, Space, Value(doc), Space, Fence>>}

\* The responses that report the facts.
FaithfulOutcomes(facts) ==
    {[raises |-> "none", content |-> <<Block("text", text)>>] :
        text \in UNION {Carriers(FaithfulDoc(facts, apartment_type, exclusion_reason)) :
                           apartment_type \in {None, Str(T_1BR)},
                           exclusion_reason \in {Absent, Str(T_sublet)}}}

\* C22: The two strategies agree on the verdict. For every listing, when the
\* model response reports the facts the deterministic engine derives for it,
\* parse_listing returns (it does not raise) and its passed is the passed of
\* filter_listing. (Both are functions of the listing alone, so each listing
\* is compared once, as a batch of one.)
C22_StrategiesAgree ==
    (pc = "append" /\ ~use_ai /\ Len(new_posts) = 1) =>
        \A facts \in {DerivedFacts(cur_post)} :
            \A outcome \in FaithfulOutcomes(facts) :
                \A parsed \in {parse_listing(outcome)} :
                    /\ parsed.raised = "none"
                    /\ parsed.result.passed = cur_result.passed

\* C22's case: a listing filter_listing passes, with a price at the maximum,
\* that parse_listing passes too on the faithful response in a code block.
C22_Witness ==
    /\ pc = "append" /\ ~use_ai /\ Len(new_posts) = 1
    /\ cur_result.passed
    /\ cur_result.extracted_price = Num(price_max)
    /\ LET doc == FaithfulDoc(DerivedFacts(cur_post), None, Absent)
           text == <<Fence, JsonWord, Space, Value(doc), Space, Fence>>
       IN parse_listing([raises |-> "none",
                         content |-> <<Block("text", text)>>]).result.passed

====
